---- MODULE Spec2Model ----
(***************************************************************************)
(* A model of SuperRest (src/index.js): the constructor, test(), expect()  *)
(* and the CRUD aliases, with the SuperTest chain reduced to what the      *)
(* class reads and writes of it: the verb functions of the supertest       *)
(* object, the request built by test[verb](path) and .send(body), the      *)
(* callback registered with .expect(fn), and the response handed to it.    *)
(*                                                                         *)
(* JavaScript values are tagged records; a string is a sequence of         *)
(* one-character strings, so that lower-casing, concatenation, template    *)
(* conversion and pattern matching are computed and not assumed.  An       *)
(* options object lives on the heap and is passed by reference.            *)
(***************************************************************************)
EXTENDS Integers, Sequences, FiniteSets, TLC

VARIABLES
  constructed,  \* the options the constructor was given
  this,         \* the SuperRest instance
  heap,         \* the options objects, by reference
  calls,        \* the chains test() returned that have not settled yet
  last          \* the last call made, or the last chain settled, and its result

vars == <<constructed, this, heap, calls, last>>

(***************************************************************************)
(* JavaScript values                                                       *)
(***************************************************************************)
Undefined == [t |-> "undefined"]
Null == [t |-> "null"]
Bool(b) == [t |-> "boolean", b |-> b]
Num(n) == [t |-> "number", n |-> n]
\* The number NaN.
NaN == [t |-> "NaN"]
Str(s) == [t |-> "string", s |-> s]
RegExp(source) == [t |-> "regexp", source |-> source]
Obj(id) == [t |-> "object", id |-> id]
Ref(r) == [t |-> "ref", r |-> r]
\* An object literal, by value: its keys and their values.
Lit(o) == [t |-> "literal", o |-> o]

\* An object literal without keys: {}.
EmptyObject == [k \in {} |-> Undefined]

\* o.k : a key that is absent reads as undefined.
Get(o, k) == IF k \in DOMAIN o THEN o[k] ELSE Undefined

\* The truthiness test of `if (x)`, `x || y` and `!x`.
Truthy(v) ==
  CASE v.t = "undefined" -> FALSE
    [] v.t = "null" -> FALSE
    [] v.t = "boolean" -> v.b
    [] v.t = "number" -> v.n # 0
    [] v.t = "NaN" -> FALSE
    [] v.t = "string" -> v.s # <<>>
    [] OTHER -> TRUE

\* x || y
Or(x, y) == IF Truthy(x) THEN x ELSE y

\* isString that takes every value that is set and no pattern for a string.
isStringLoose(v) == v.t \notin {"undefined", "regexp"}

\* _.isString and _.isRegExp of lodash.
isString(v) == v.t = "string"
isRegExp(v) == v.t = "regexp"

(***************************************************************************)
(* Strings                                                                 *)
(***************************************************************************)
Upper == <<"A","B","C","D","E","F","G","H","I","J","K","L","M",
           "N","O","P","Q","R","S","T","U","V","W","X","Y","Z">>
Lower == <<"a","b","c","d","e","f","g","h","i","j","k","l","m",
           "n","o","p","q","r","s","t","u","v","w","x","y","z">>

LowerChar(c) ==
  IF \E i \in DOMAIN Upper : Upper[i] = c
    THEN Lower[CHOOSE i \in DOMAIN Upper : Upper[i] = c]
    ELSE c

\* String.prototype.toLowerCase
toLowerCase(s) == [i \in DOMAIN s |-> LowerChar(s[i])]

Digits == <<"0","1","2","3","4","5","6","7","8","9">>

RECURSIVE NumToStr(_)
NumToStr(n) ==
  IF n < 10 THEN <<Digits[n + 1]>>
  ELSE NumToStr(n \div 10) \o <<Digits[(n % 10) + 1]>>

\* The conversion a template literal `${v}` applies to v.
TemplateString(v) ==
  CASE v.t = "undefined" -> <<"u","n","d","e","f","i","n","e","d">>
    [] v.t = "null" -> <<"n","u","l","l">>
    [] v.t = "boolean" -> IF v.b THEN <<"t","r","u","e">> ELSE <<"f","a","l","s","e">>
    [] v.t = "number" -> NumToStr(v.n)
    [] v.t = "NaN" -> <<"N","a","N">>
    [] v.t = "string" -> v.s
    [] v.t = "regexp" -> <<"/">> \o v.source \o <<"/">>
    [] OTHER -> <<"[","o","b","j","e","c","t"," ","O","b","j","e","c","t","]">>

\* The text of a string, as it appears in an error message.
RECURSIVE Text(_)
Text(s) == IF s = <<>> THEN "" ELSE Head(s) \o Text(Tail(s))

(***************************************************************************)
(* Patterns: the regular expressions made of ^, $, ., escaped characters   *)
(* and literal characters.                                                 *)
(***************************************************************************)
RECURSIVE Atoms(_)
Atoms(src) ==
  IF src = <<>> THEN <<>>
  ELSE IF Head(src) = "\\" /\ Len(src) >= 2
    THEN <<[any |-> FALSE, c |-> src[2]]>> \o Atoms(SubSeq(src, 3, Len(src)))
  ELSE IF Head(src) = "."
    THEN <<[any |-> TRUE, c |-> "."]>> \o Atoms(Tail(src))
  ELSE <<[any |-> FALSE, c |-> Head(src)]>> \o Atoms(Tail(src))

AnchoredStart(src) == src # <<>> /\ Head(src) = "^"

AnchoredEnd(src) ==
  /\ src # <<>>
  /\ src[Len(src)] = "$"
  /\ (Len(src) = 1 \/ src[Len(src) - 1] # "\\")

Body(src) ==
  LET from == IF AnchoredStart(src) THEN 2 ELSE 1
      to == IF AnchoredEnd(src) THEN Len(src) - 1 ELSE Len(src)
  IN SubSeq(src, from, to)

\* String.prototype.match(regexp) is not null.
Matches(s, re) ==
  LET atoms == Atoms(Body(re.source))
      starts == IF AnchoredStart(re.source) THEN {1} ELSE 1..(Len(s) + 1)
  IN \E p \in starts :
       /\ p + Len(atoms) - 1 <= Len(s)
       /\ \A i \in DOMAIN atoms : atoms[i].any \/ atoms[i].c = s[p + i - 1]
       /\ AnchoredEnd(re.source) => p + Len(atoms) - 1 = Len(s)

(***************************************************************************)
(* String constants of the source                                          *)
(***************************************************************************)
GET == <<"G","E","T">>
PUT == <<"P","U","T">>
POST == <<"P","O","S","T">>
PATCH == <<"P","A","T","C","H">>
DELETE == <<"D","E","L","E","T","E">>

\* The status expected when options.expectedStatus is undefined.
DefaultStatus == 200
\* The status create() expects by default.
CreatedStatus == 201

\* The properties of the object supertest(app) returns that are functions:
\* one per HTTP verb of the `methods` package in use here, and `del`.
SupertestFunctions ==
  { <<"g","e","t">>, <<"p","o","s","t">>, <<"p","u","t">>, <<"h","e","a","d">>,
    <<"p","a","t","c","h">>, <<"d","e","l","e","t","e">>,
    <<"o","p","t","i","o","n","s">>, <<"d","e","l">> }

(***************************************************************************)
(* The heap of options objects                                             *)
(***************************************************************************)
\* One reference for every new object.
NewRefShared(h) == 1

\* A reference no object of heap h has (any will do).
NewRef(h) == CHOOSE r \in 1..(Cardinality(DOMAIN h) + 1) : r \notin DOMAIN h

Alloc(h, o) == (NewRef(h) :> o) @@ h

Free(h, refs) == [r \in DOMAIN h \ refs |-> h[r]]

\* The keys and values of the object an options argument refers to.
Deref(h, v) == IF v.t = "ref" THEN Lit(h[v.r]) ELSE v

\* One source of _.defaults: the keys of object that resolve to undefined are
\* assigned from source; a null or undefined source is skipped.
assignDefaults(object, source) ==
  IF source.t \in {"undefined", "null"} THEN object
  ELSE [k \in DOMAIN object \cup DOMAIN source.o |->
          IF Get(object, k) = Undefined /\ k \in DOMAIN source.o
            THEN source.o[k] ELSE object[k]]

\* _.defaults(object, ...sources), the sources applied from left to right.
RECURSIVE defaults(_, _)
defaults(object, sources) ==
  IF sources = <<>> THEN object
  ELSE defaults(assignDefaults(object, Head(sources)), Tail(sources))

(***************************************************************************)
(* class SuperRest                                                         *)
(***************************************************************************)
\* constructor(app, options); options is undefined or an object literal.
constructor(app, options) ==
  LET opts == IF Truthy(options) THEN options.o ELSE EmptyObject
  IN [ app |-> app,
       expectedContentType |-> Get(opts, "expectedContentType"),
       pathPrefix |-> Or(Get(opts, "pathPrefix"), Str(<<>>)),
       updateMethod |-> Or(Get(opts, "updateMethod"), Str(PUT)) ]

NoRequest == [none |-> TRUE]

\* testPath with the instance prefix tried first.
testPathInstanceFirst(path, options) ==
  IF Truthy(this.pathPrefix)
    THEN Str(TemplateString(this.pathPrefix) \o TemplateString(path))
  ELSE IF Truthy(Get(options, "pathPrefix"))
    THEN Str(TemplateString(Get(options, "pathPrefix")) \o TemplateString(path))
  ELSE path

\* The path test() hands to test[testMethod].
testPath(path, options) ==
  IF Truthy(Get(options, "pathPrefix"))
    THEN Str(TemplateString(Get(options, "pathPrefix")) \o TemplateString(path))
  ELSE IF /\ Truthy(this.pathPrefix)
          /\ Get(options, "pathPrefix") \in {Undefined, Bool(TRUE)}
    THEN Str(TemplateString(this.pathPrefix) \o TemplateString(path))
  ELSE path

\* request that sends every body but undefined.
requestDefinedBody(testMethod, path, body, options) ==
  [ method |-> testMethod,
    path |-> testPath(path, options),
    sent |-> IF body # Undefined THEN <<body>> ELSE <<>> ]

\* The request test[testMethod](testPath) builds, with .send(body) applied
\* when body is truthy.
request(testMethod, path, body, options) ==
  [ method |-> testMethod,
    path |-> testPath(path, options),
    sent |-> IF Truthy(body) THEN <<body>> ELSE <<>> ]

\* testMethod without the lower-casing.
testMethodAsGiven(method) == Or(method, Str(GET)).s

\* The verb test() looks up on the supertest object.
testMethod(method) == toLowerCase(Or(method, Str(GET)).s)

\* Whether test() throws for the verb.
unsupported(method) == testMethod(method) \notin SupertestFunctions

\* test() that dispatches before it validates the verb.
stepsDispatchFirst(method, body) ==
  <<"dispatch">>
    \o (IF Truthy(body) THEN <<"send">> ELSE <<>>)
    \o <<"validate">>
    \o (IF unsupported(method) THEN <<>> ELSE <<"register">>)

\* What test() does to the chain, in the order of its statements.
steps(method, body) ==
  IF unsupported(method) THEN <<"validate">>
  ELSE <<"validate", "dispatch">>
         \o (IF Truthy(body) THEN <<"send">> ELSE <<>>)
         \o <<"register">>

\* test() whose callback closes over a copy of the options made at the call.
testCopiesOptions(h, method, path, body, options) ==
  LET h1 == Alloc(h, IF Truthy(options) THEN h[options.r] ELSE EmptyObject)
      opts == Ref(NewRef(h))
      args == [method |-> method, path |-> path, body |-> body, options |-> options]
  IN IF unsupported(method)
       THEN [ threw |-> TRUE,
              error |-> "supertest has no \"" \o Text(testMethod(method)) \o "\" function",
              this |-> this, heap |-> h, args |-> args, events |-> steps(method, body),
              request |-> NoRequest, options |-> Undefined ]
       ELSE [ threw |-> FALSE, error |-> "",
              this |-> this, heap |-> h1, args |-> args, events |-> steps(method, body),
              request |-> request(testMethod(method), path, body, h1[opts.r]),
              options |-> opts ]

\* test(method, path, body, options) on heap h; options is undefined or a
\* reference.  The result: whether it threw and with what message, the
\* instance and the heap afterwards, the arguments it received, what it did
\* to the chain, the request it dispatched and the options object its
\* assertion callback closes over.
test(h, method, path, body, options) ==
  LET h1 == IF Truthy(options) THEN h ELSE Alloc(h, EmptyObject)
      opts == IF Truthy(options) THEN options ELSE Ref(NewRef(h))
      args == [method |-> method, path |-> path, body |-> body, options |-> options]
  IN IF unsupported(method)
       THEN [ threw |-> TRUE,
              error |-> "supertest has no \"" \o Text(testMethod(method)) \o "\" function",
              this |-> this, heap |-> h, args |-> args, events |-> steps(method, body),
              request |-> NoRequest, options |-> Undefined ]
       ELSE [ threw |-> FALSE, error |-> "",
              this |-> this, heap |-> h1, args |-> args, events |-> steps(method, body),
              request |-> request(testMethod(method), path, body, h1[opts.r]),
              options |-> opts ]

\* res.get('Content-Type'): undefined when the response has no such header.
contentType(res) == res.contentType

\* expectedStatus that reads no option.
expectedStatusDefaultOnly(options) == Num(DefaultStatus)

\* The status expect() requires of the response.
expectedStatus(options) ==
  IF Get(options, "expectedStatus") # Undefined
    THEN Get(options, "expectedStatus") ELSE Num(DefaultStatus)

\* expectedContentType with the instance's value tried first.
expectedContentTypeInstanceFirst(options) ==
  IF this.expectedContentType # Undefined
    THEN this.expectedContentType ELSE Get(options, "expectedContentType")

\* The content type expect() requires of the response.
expectedContentType(options) ==
  IF Get(options, "expectedContentType") # Undefined
    THEN Get(options, "expectedContentType") ELSE this.expectedContentType

\* stringMismatch that accepts a header the expected string starts.
stringMismatchPrefix(res, expected) ==
  /\ isString(expected)
  /\ \/ ~isString(contentType(res))
     \/ Len(contentType(res).s) < Len(expected.s)
     \/ SubSeq(contentType(res).s, 1, Len(expected.s)) # expected.s

\* missingHeader that takes only an absent header for missing.
missingHeaderAbsentOnly(res, expected) ==
  isRegExp(expected) /\ contentType(res) = Undefined

\* The conditions of the three content-type branches of expect().
stringMismatch(res, expected) ==
  isString(expected) /\ contentType(res) # expected

missingHeader(res, expected) ==
  isRegExp(expected) /\ ~Truthy(contentType(res))

patternMismatch(res, expected) ==
  isRegExp(expected) /\ ~Matches(contentType(res).s, expected)

\* expect(res, options): whether it throws, and with what message.
expect(res, options) ==
  LET status == expectedStatus(options)
      type == expectedContentType(options)
      actual == Text(TemplateString(contentType(res)))
      expected == Text(TemplateString(type))
  IN IF res.status # status
       THEN [ threw |-> TRUE,
              error |-> "Expected HTTP status code " \o Text(TemplateString(res.status))
                        \o " to equal " \o Text(TemplateString(status)) ]
     ELSE IF stringMismatch(res, type)
       THEN [ threw |-> TRUE,
              error |-> "Expected HTTP Content-Type header \"" \o actual
                        \o "\" to equal \"" \o expected \o "\"" ]
     ELSE IF missingHeader(res, type)
       THEN [ threw |-> TRUE,
              error |-> "Expected missing HTTP Content-Type header to match " \o expected ]
     ELSE IF patternMismatch(res, type)
       THEN [ threw |-> TRUE,
              error |-> "Expected HTTP Content-Type header \"" \o actual
                        \o "\" to match " \o expected ]
     ELSE [ threw |-> FALSE, error |-> "" ]

\* create whose default wins over the caller's expectedStatus.
createDefaultFirst(h, path, body, options) ==
  LET o == defaults(EmptyObject, << Lit([expectedStatus |-> Num(CreatedStatus)]),
                                     Deref(h, options) >>)
  IN test(Alloc(h, o), Str(POST), path, body, Ref(NewRef(h)))

\* create that assigns the default to the caller's own options object.
createInPlace(h, path, body, options) ==
  IF Truthy(options)
    THEN test([h EXCEPT ![options.r] =
                 defaults(@, <<Lit([expectedStatus |-> Num(CreatedStatus)])>>)],
              Str(POST), path, body, options)
    ELSE test(Alloc(h, [expectedStatus |-> Num(CreatedStatus)]), Str(POST), path, body,
              Ref(NewRef(h)))

\* create(path, body, options)
create(h, path, body, options) ==
  LET o == defaults(EmptyObject, << Deref(h, options),
                                     Lit([expectedStatus |-> Num(CreatedStatus)]) >>)
  IN test(Alloc(h, o), Str(POST), path, body, Ref(NewRef(h)))

\* read(path, options)
read(h, path, options) == test(h, Str(GET), path, Undefined, options)

\* retrieve(...args)
retrieve(h, path, options) == read(h, path, options)

\* update with the instance's updateMethod tried first.
updateInstanceFirst(h, path, body, options) ==
  LET h1 == IF Truthy(options) THEN h ELSE Alloc(h, EmptyObject)
      opts == IF Truthy(options) THEN options ELSE Ref(NewRef(h))
  IN test(h1, Or(this.updateMethod, Get(h1[opts.r], "method")), path, body, opts)

\* update that keeps the call's method as the instance's updateMethod.
updateStoresMethod(h, path, body, options) ==
  LET h1 == IF Truthy(options) THEN h ELSE Alloc(h, EmptyObject)
      opts == IF Truthy(options) THEN options ELSE Ref(NewRef(h))
      method == Or(Get(h1[opts.r], "method"), this.updateMethod)
  IN [test(h1, method, path, body, opts) EXCEPT !.this.updateMethod = method]

\* update(path, body, options)
update(h, path, body, options) ==
  LET h1 == IF Truthy(options) THEN h ELSE Alloc(h, EmptyObject)
      opts == IF Truthy(options) THEN options ELSE Ref(NewRef(h))
  IN test(h1, Or(Get(h1[opts.r], "method"), this.updateMethod), path, body, opts)

\* patch(path, body, options)
patch(h, path, body, options) == test(h, Str(PATCH), path, body, options)

\* delete(path, body, options)
delete(h, path, body, options) == test(h, Str(DELETE), path, body, options)

\* destroy shaped like read: the body is not passed on.
destroyWithoutBody(h, path, body, options) == test(h, Str(DELETE), path, Undefined, options)

\* destroy(...args)
destroy(h, path, body, options) == delete(h, path, body, options)

(***************************************************************************)
(* The caller and the SuperTest chain                                      *)
(*                                                                         *)
(* A caller builds its options literal (or passes none), calls a method    *)
(* and gets the chain back; the chain is pending until its response is     *)
(* there, then runs the callback test() registered and settles.            *)
(***************************************************************************)
App == Obj("app")

\* The caller's options: none (undefined), a literal it builds for the call,
\* or an object it made for an earlier call and passes again.
\* The heap once the caller has its options o.
CallerHeap(o) == IF o.t = "literal" THEN Alloc(heap, o.o) ELSE heap
\* The options argument the caller passes.
CallerArg(o) == IF o.t = "literal" THEN Ref(NewRef(heap)) ELSE o
\* The keys and values of the options argument when the call is made.
CallerOptions(o) == Deref(CallerHeap(o), CallerArg(o))

\* The objects the pending chains cs refer to.
Referenced(cs) ==
  {v.r : v \in {x \in UNION {{cs[j].options, cs[j].callerOptions} : j \in DOMAIN cs} :
                  x.t = "ref"}}

\* The references of the chains cs, each once, in the order the chains hold
\* them.
RECURSIVE Order(_)
Order(cs) ==
  IF cs = <<>> THEN <<>>
  ELSE LET c == cs[Len(cs)]
           before == Order(SubSeq(cs, 1, Len(cs) - 1))
           known(seq, v) == v.t # "ref" \/ \E n \in DOMAIN seq : seq[n] = v.r
           first == IF known(before, c.options) THEN before
                    ELSE Append(before, c.options.r)
       IN IF known(first, c.callerOptions) THEN first
          ELSE Append(first, c.callerOptions.r)

\* An object has no name but its identity: the heap keeps the objects the
\* chains cs refer to, named by their place in Order(cs), and drops the rest.
Compact(h, cs) ==
  LET order == Order(cs)
      kept == Free(h, DOMAIN h \ Referenced(cs))
      name(v) == IF v.t = "ref" THEN Ref(CHOOSE n \in DOMAIN order : order[n] = v.r)
                 ELSE v
  IN [ heap |-> [n \in DOMAIN order |-> kept[order[n]]],
       calls |-> [j \in DOMAIN cs |->
                    [cs[j] EXCEPT !.options = name(@), !.callerOptions = name(@)]] ]

\* The call `op`, with arguments `given` and the options argument `arg`,
\* returned r: a throw leaves nothing behind, a dispatched request is a
\* pending chain.
Returned(op, given, arg, r) ==
  LET chain == [ op |-> op, given |-> given,
                 args |-> [r.args EXCEPT !.options = Deref(r.heap, r.args.options)],
                 passedOn |-> r.args.options = arg,
                 request |-> r.request,
                 events |-> r.events,
                 options |-> r.options,
                 callerOptions |-> arg ]
      pending == IF r.request = NoRequest THEN calls ELSE Append(calls, chain)
  IN /\ calls' = Compact(r.heap, pending).calls
     /\ heap' = Compact(r.heap, pending).heap
     /\ last' = [ kind |-> IF r.threw THEN "throw" ELSE "call",
                  op |-> op, given |-> given, error |-> r.error,
                  args |-> chain.args, passedOn |-> chain.passedOn,
                  request |-> r.request, events |-> r.events,
                  callerOptions |-> Deref(r.heap, arg) ]
     /\ this' = r.this
     /\ UNCHANGED constructed

Test(method, path, body, o) ==
  \E r \in {test(CallerHeap(o), method, path, body, CallerArg(o))} :
    Returned("test", [method |-> method, path |-> path, body |-> body,
                      options |-> CallerOptions(o)], CallerArg(o), r)

Create(path, body, o) ==
  \E r \in {create(CallerHeap(o), path, body, CallerArg(o))} :
    Returned("create", [path |-> path, body |-> body, options |-> CallerOptions(o)],
             CallerArg(o), r)

Read(path, o) ==
  \E r \in {read(CallerHeap(o), path, CallerArg(o))} :
    Returned("read", [path |-> path, options |-> CallerOptions(o)], CallerArg(o), r)

Retrieve(path, o) ==
  \E r \in {retrieve(CallerHeap(o), path, CallerArg(o))} :
    Returned("retrieve", [path |-> path, options |-> CallerOptions(o)], CallerArg(o), r)

Update(path, body, o) ==
  \E r \in {update(CallerHeap(o), path, body, CallerArg(o))} :
    Returned("update", [path |-> path, body |-> body, options |-> CallerOptions(o)],
             CallerArg(o), r)

Patch(path, body, o) ==
  \E r \in {patch(CallerHeap(o), path, body, CallerArg(o))} :
    Returned("patch", [path |-> path, body |-> body, options |-> CallerOptions(o)],
             CallerArg(o), r)

Delete(path, body, o) ==
  \E r \in {delete(CallerHeap(o), path, body, CallerArg(o))} :
    Returned("delete", [path |-> path, body |-> body, options |-> CallerOptions(o)],
             CallerArg(o), r)

Destroy(path, body, o) ==
  \E r \in {destroy(CallerHeap(o), path, body, CallerArg(o))} :
    Returned("destroy", [path |-> path, body |-> body, options |-> CallerOptions(o)],
             CallerArg(o), r)

\* The response of chain i is there: the callback runs this.expect(res,
\* options) on the options object it closed over, and the chain settles:
\* resolved with the response, or rejected with what the callback threw.
Respond(i, res) ==
  /\ i \in DOMAIN calls
  /\ LET c == calls[i]
         seen == heap[c.options.r]
         r == expect(res, seen)
         rest == [j \in 1..(Len(calls) - 1) |-> IF j < i THEN calls[j] ELSE calls[j + 1]]
     IN /\ last' = [ kind |-> "settle", op |-> c.op, given |-> c.given,
                     args |-> c.args, request |-> c.request, res |-> res,
                     events |-> c.events \o <<"response", "expect", "settle">>,
                     options |-> seen,
                     callerOptions |-> Deref(heap, c.callerOptions),
                     settled |-> IF r.threw THEN "rejected" ELSE "resolved",
                     error |-> r.error,
                     value |-> IF r.threw THEN Undefined ELSE res ]
        /\ calls' = Compact(heap, rest).calls
        /\ heap' = Compact(heap, rest).heap
  /\ UNCHANGED <<constructed, this>>

\* The caller of the outstanding chain j assigns value to options[key], on the
\* options object it passed to that call.
Assign(j, key, value) ==
  /\ j \in DOMAIN calls
  /\ calls[j].callerOptions.t = "ref"
  /\ Get(heap[calls[j].callerOptions.r], key) # value
  /\ heap' = [heap EXCEPT ![calls[j].callerOptions.r] = (key :> value) @@ @]
  /\ last' = [kind |-> "assign", op |-> calls[j].op, key |-> key, value |-> value]
  /\ UNCHANGED <<constructed, this, calls>>

\* The state after `new SuperRest(app, options)`.
Constructed(options) ==
  /\ constructed = options
  /\ this = constructor(App, options)
  /\ heap = EmptyObject
  /\ calls = <<>>
  /\ last = [kind |-> "new"]

\* A caller that awaits each chain before it makes the next call.
Awaited == calls = <<>>

(***************************************************************************)
(* Values the callers and the server use                                   *)
(***************************************************************************)
Api == <<"/","a","p","i">>
V2 == <<"/","v","2">>
TestRoute == <<"/","t","e","s","t">>
UsersRoute == <<"/","u","s","e","r","s">>
Json == <<"a","p","p","l","i","c","a","t","i","o","n","/","j","s","o","n">>
ExpressJson == Json \o <<";"," ","c","h","a","r","s","e","t","=","u","t","f","-","8">>
Html == <<"t","e","x","t","/","h","t","m","l">>
JsonPattern == <<"^","a","p","p","l","i","c","a","t","i","o","n","\\","/","j","s","o","n">>
XmlPattern == <<"^","a","p","p","l","i","c","a","t","i","o","n","\\","/","x","m","l">>
FooBar == Obj("fooBar")

\* Every object literal with keys among those of `choices`, each key with one
\* of the values `choices` gives it.
Literals(choices) ==
  UNION { [ks -> UNION {choices[k] : k \in ks}] : ks \in SUBSET DOMAIN choices }

Objects(choices) ==
  { Lit(o) : o \in { f \in Literals(choices) : \A k \in DOMAIN f : f[k] \in choices[k] } }

Response(status, header) == [status |-> Num(status), contentType |-> header]

\* Options literals of callers.
Qux == Lit([baz |-> Str(<<"q","u","x">>)])

Expect201 == Lit([expectedStatus |-> Num(201)])

(***************************************************************************)
(* SpecTest: one instance, calls of test() over verbs, paths, bodies and   *)
(* path prefixes.                                                          *)
(***************************************************************************)
TestConstructorOptions ==
  {Undefined} \cup Objects([pathPrefix |-> {Str(<<>>), Str(Api)}])

TestMethods ==
  { Undefined, Str(GET), Str(<<"P","o","s","t">>), Str(<<"d","e","l">>),
    Str(<<"U","N","K","N","O","W","N">>), Str(<<"F","e","t","c","h">>) }

TestPaths == {Str(TestRoute), Str(UsersRoute)}

TestBodies == {Undefined, FooBar}

TestOptions ==
  {Undefined} \cup
  Objects([pathPrefix |-> {Undefined, Str(<<>>), Str(V2), Bool(FALSE), Bool(TRUE)}])

TestResponses == {Response(200, Str(ExpressJson)), Response(404, Undefined)}

InitTest == \E options \in TestConstructorOptions : Constructed(options)

NextTest ==
  \/ /\ Awaited
     /\ \E method \in TestMethods, path \in TestPaths, body \in TestBodies,
           o \in TestOptions : Test(method, path, body, o)
  \/ \E i \in DOMAIN calls, res \in TestResponses : Respond(i, res)

SpecTest == InitTest /\ [][NextTest]_vars

(***************************************************************************)
(* SpecExpect: instances with and without an expected content type, calls  *)
(* of test() over expected statuses and content types, and the responses   *)
(* a server may give.                                                      *)
(***************************************************************************)
ExpectConstructorOptions ==
  {Undefined} \cup
  Objects([expectedContentType |-> {Str(ExpressJson), RegExp(JsonPattern), Num(42)}])

ExpectOptions ==
  {Undefined} \cup
  Objects([ expectedStatus |-> {Num(200), Num(201), Str(<<"2","0","0">>)},
            expectedContentType |->
              { Str(Json), Str(ExpressJson), Str(<<>>), RegExp(JsonPattern),
                RegExp(XmlPattern), Null } ])

ExpectResponses ==
  { Response(status, header) :
      status \in {200, 201},
      header \in {Undefined, Str(<<>>), Str(ExpressJson), Str(Json), Str(Html)} }

InitExpect == \E options \in ExpectConstructorOptions : Constructed(options)

NextExpect ==
  \/ /\ Awaited
     /\ \E o \in ExpectOptions : Test(Str(GET), Str(TestRoute), Undefined, o)
  \/ \E i \in DOMAIN calls, res \in ExpectResponses : Respond(i, res)

SpecExpect == InitExpect /\ [][NextExpect]_vars

(***************************************************************************)
(* SpecAlias: the CRUD aliases, over instances with and without an         *)
(* updateMethod.                                                           *)
(***************************************************************************)
AliasConstructorOptions ==
  {Undefined} \cup Objects([updateMethod |-> {Str(PATCH), Str(<<>>)}])

AliasOptions ==
  {Undefined} \cup
  Objects([ baz |-> {Str(<<"q","u","x">>)},
            expectedStatus |-> {Undefined, Num(200)},
            method |-> {Str(POST), Str(<<>>)} ])

AliasBodies == {Undefined, FooBar}

AliasResponses == {Response(200, Str(ExpressJson)), Response(201, Str(ExpressJson))}

InitAlias == \E options \in AliasConstructorOptions : Constructed(options)

NextAlias ==
  \/ Awaited /\ \E o \in AliasOptions : Create(Str(UsersRoute), FooBar, o)
  \/ Awaited /\ \E o \in AliasOptions : Read(Str(TestRoute), o)
  \/ Awaited /\ \E o \in AliasOptions : Retrieve(Str(TestRoute), o)
  \/ Awaited /\ \E o \in AliasOptions : Update(Str(TestRoute), FooBar, o)
  \/ Awaited /\ \E o \in AliasOptions : Patch(Str(TestRoute), FooBar, o)
  \/ Awaited /\ \E o \in AliasOptions, body \in AliasBodies : Delete(Str(TestRoute), body, o)
  \/ Awaited /\ \E o \in AliasOptions, body \in AliasBodies : Destroy(Str(TestRoute), body, o)
  \/ \E i \in DOMAIN calls, res \in AliasResponses : Respond(i, res)

SpecAlias == InitAlias /\ [][NextAlias]_vars

(***************************************************************************)
(* SpecDocumented: the calls the JSDoc and the README describe: the        *)
(* README's instance, test() and create() on its route with its body, and  *)
(* the option the JSDoc names expectedStatusCode.                          *)
(***************************************************************************)
ReadmeConstructorOptions ==
  Lit([expectedContentType |-> RegExp(JsonPattern), pathPrefix |-> Str(Api)])

DocumentedConstructorOptions == {Undefined, ReadmeConstructorOptions}

DocumentedMethods == {Str(POST), Str(GET)}

DocumentedOptions ==
  {Undefined} \cup Objects([expectedStatusCode |-> {Num(200), Num(201)}])

DocumentedResponses ==
  { Response(status, header) :
      status \in {200, 201, 404}, header \in {Str(ExpressJson), Str(Html), Undefined} }

InitDocumented == \E options \in DocumentedConstructorOptions : Constructed(options)

NextDocumented ==
  \/ Awaited /\ \E method \in DocumentedMethods, o \in DocumentedOptions :
                  Test(method, Str(UsersRoute), FooBar, o)
  \/ Awaited /\ \E o \in DocumentedOptions : Create(Str(UsersRoute), FooBar, o)
  \/ \E i \in DOMAIN calls, res \in DocumentedResponses : Respond(i, res)

SpecDocumented == InitDocumented /\ [][NextDocumented]_vars

(***************************************************************************)
(* SpecBody: calls of test() and of the aliases that take a body, over     *)
(* falsy and truthy bodies.                                                *)
(***************************************************************************)
BodyValues ==
  { Undefined, Null, Bool(FALSE), Bool(TRUE), Num(0), Num(1), NaN,
    Str(<<>>), Str(<<"x">>), FooBar }

BodyMethods == {Str(POST), Str(GET)}

BodyResponses ==
  { Response(200, Str(ExpressJson)), Response(201, Str(ExpressJson)),
    Response(404, Undefined) }

InitBody == Constructed(Undefined)

NextBody ==
  \/ Awaited /\ \E method \in BodyMethods, body \in BodyValues :
                  Test(method, Str(TestRoute), body, Undefined)
  \/ Awaited /\ \E body \in BodyValues : Create(Str(TestRoute), body, Undefined)
  \/ Awaited /\ \E body \in BodyValues : Delete(Str(TestRoute), body, Undefined)
  \/ \E i \in DOMAIN calls, res \in BodyResponses : Respond(i, res)

SpecBody == InitBody /\ [][NextBody]_vars

(***************************************************************************)
(* SpecAssign: a caller that changes the options object it passed while    *)
(* the chain is outstanding.                                               *)
(***************************************************************************)
AssignOptions == {Undefined, Qux, Expect201}

AssignResponses ==
  { Response(200, Str(ExpressJson)), Response(201, Str(ExpressJson)),
    Response(201, Str(Html)) }

InitAssign == Constructed(Undefined)

NextAssign ==
  \/ Awaited /\ \E o \in AssignOptions : Test(Str(GET), Str(TestRoute), Undefined, o)
  \/ Awaited /\ \E o \in AssignOptions : Create(Str(TestRoute), FooBar, o)
  \/ Awaited /\ \E o \in AssignOptions : Read(Str(TestRoute), o)
  \/ Awaited /\ \E o \in AssignOptions : Retrieve(Str(TestRoute), o)
  \/ Awaited /\ \E o \in AssignOptions : Update(Str(TestRoute), FooBar, o)
  \/ Awaited /\ \E o \in AssignOptions : Patch(Str(TestRoute), FooBar, o)
  \/ Awaited /\ \E o \in AssignOptions : Delete(Str(TestRoute), FooBar, o)
  \/ Awaited /\ \E o \in AssignOptions : Destroy(Str(TestRoute), FooBar, o)
  \/ \E j \in DOMAIN calls, status \in {Num(200), Num(201)} :
       Assign(j, "expectedStatus", status)
  \/ \E j \in DOMAIN calls : Assign(j, "expectedContentType", Str(Html))
  \/ \E i \in DOMAIN calls, res \in AssignResponses : Respond(i, res)

SpecAssign == InitAssign /\ [][NextAssign]_vars

(***************************************************************************)
(* SpecConcurrent: a caller that does not await: up to MaxPending chains   *)
(* are outstanding at once and their responses arrive in any order.  The   *)
(* caller passes no options, a new literal, or the object it passed to a   *)
(* call that is still outstanding.                                         *)
(***************************************************************************)
MaxPending == 2

ConcurrentConstructorOptions ==
  { Undefined,
    Lit([ expectedContentType |-> RegExp(JsonPattern), pathPrefix |-> Str(Api),
          updateMethod |-> Str(PATCH) ]) }

ConcurrentMethods == {Str(GET), Str(<<"U","N","K","N","O","W","N">>)}

\* The options objects the callers of the outstanding chains hold.
Held == {c \in {calls[j].callerOptions : j \in DOMAIN calls} : c.t = "ref"}

ConcurrentResponses == {Response(200, Str(ExpressJson)), Response(201, Str(Html))}

Outstanding == Len(calls) < MaxPending

InitConcurrent == \E options \in ConcurrentConstructorOptions : Constructed(options)

NextConcurrent ==
  \/ Outstanding /\ \E method \in ConcurrentMethods, o \in {Undefined, Qux} \cup Held :
                      Test(method, Str(TestRoute), Undefined, o)
  \/ Outstanding /\ \E o \in {Undefined, Qux} \cup Held : Create(Str(TestRoute), FooBar, o)
  \/ Outstanding /\ \E o \in {Undefined} \cup Held : Read(Str(TestRoute), o)
  \/ Outstanding /\ Retrieve(Str(TestRoute), Expect201)
  \/ Outstanding /\ Update(Str(TestRoute), FooBar, Lit([method |-> Str(POST)]))
  \/ Outstanding /\ Patch(Str(TestRoute), FooBar, Undefined)
  \/ Outstanding /\ Delete(Str(TestRoute), FooBar, Expect201)
  \/ Outstanding /\ Destroy(Str(TestRoute), FooBar, Undefined)
  \/ \E i \in DOMAIN calls, res \in ConcurrentResponses : Respond(i, res)

SpecConcurrent == InitConcurrent /\ [][NextConcurrent]_vars

(***************************************************************************)
(* What the claims read of a state                                         *)
(***************************************************************************)
\* The keys and values of the options the caller gave to the last call.
GivenOptions == IF last.given.options = Undefined THEN EmptyObject ELSE last.given.options.o

\* The keys and values of the options the constructor was given.
ConstructorOptions == IF constructed = Undefined THEN EmptyObject ELSE constructed.o

NonEmptyString(v) == v.t = "string" /\ v.s # <<>>

Called(op) == last.kind = "call" /\ last.op = op
Settled == last.kind = "settle"

(***************************************************************************)
(* C1. test() requests o+p when the call's pathPrefix o is a non-empty     *)
(* string, whatever the instance prefix P is; P+p when o is absent and P   *)
(* is non-empty; and p itself when o is false, or when o is absent or      *)
(* empty and P is empty.                                                   *)
(***************************************************************************)
C1_PathPrefixResolution ==
  Called("test") =>
    LET o == Get(GivenOptions, "pathPrefix")
        P == Get(ConstructorOptions, "pathPrefix")
        p == last.given.path.s
    IN /\ NonEmptyString(o) => last.request.path = Str(o.s \o p)
       /\ (o = Undefined /\ NonEmptyString(P)) => last.request.path = Str(P.s \o p)
       /\ (o = Bool(FALSE) \/ (o \in {Undefined, Str(<<>>)} /\ P \in {Undefined, Str(<<>>)}))
            => last.request.path = Str(p)

C1_Witness ==
  /\ Called("test")
  /\ Get(GivenOptions, "pathPrefix") = Str(V2)
  /\ Get(ConstructorOptions, "pathPrefix") = Str(Api)
  /\ last.given.path = Str(TestRoute)
  /\ Text(last.request.path.s) = "/v2/test"

(***************************************************************************)
(* C2. With a non-empty instance prefix P, a call of test() with           *)
(* options.pathPrefix === true requests P+path.                            *)
(***************************************************************************)
C2_TruePrefixUsesInstancePrefix ==
  ( /\ Called("test")
    /\ NonEmptyString(Get(ConstructorOptions, "pathPrefix"))
    /\ Get(GivenOptions, "pathPrefix") = Bool(TRUE) )
  => last.request.path = Str(Get(ConstructorOptions, "pathPrefix").s \o last.given.path.s)

ClaimedStatus ==
  IF Get(last.options, "expectedStatus") # Undefined
    THEN Get(last.options, "expectedStatus") ELSE Num(200)

ClaimedContentType ==
  IF Get(last.options, "expectedContentType") # Undefined
    THEN Get(last.options, "expectedContentType")
    ELSE Get(ConstructorOptions, "expectedContentType")

StatusAsExpected == last.res.status = ClaimedStatus

Header == last.res.contentType

HeaderText == IF Header = Undefined THEN "undefined" ELSE Text(Header.s)

EqualMessage(actual, expected) ==
  "Expected HTTP Content-Type header \"" \o actual \o "\" to equal \""
    \o Text(expected.s) \o "\""

MissingMessage(pattern) ==
  "Expected missing HTTP Content-Type header to match /" \o Text(pattern.source) \o "/"

MatchMessage(actual, pattern) ==
  "Expected HTTP Content-Type header \"" \o actual \o "\" to match /"
    \o Text(pattern.source) \o "/"

Malformed(v) == v.t \notin {"undefined", "string", "regexp"}

(***************************************************************************)
(* C4. expect() requires the status options.expectedStatus when it is      *)
(* present and 200 otherwise; a response with another status is rejected   *)
(* with `Expected HTTP status code <actual> to equal <expected>`, also     *)
(* when its content type is not the expected one.                          *)
(***************************************************************************)
C4_StatusGateFirst ==
  (Settled /\ ~StatusAsExpected) =>
    /\ last.settled = "rejected"
    /\ last.error = "Expected HTTP status code " \o Text(TemplateString(last.res.status))
                      \o " to equal " \o Text(TemplateString(ClaimedStatus))

C4_Witness ==
  /\ Settled
  /\ "expectedStatus" \notin DOMAIN last.options
  /\ Get(last.options, "expectedContentType") = Str(Json)
  /\ last.res = Response(201, Str(Html))
  /\ last.settled = "rejected"
  /\ last.error = "Expected HTTP status code 201 to equal 200"

(***************************************************************************)
(* C5. The content type expect() requires is the call's                    *)
(* expectedContentType when the call gives one, else the instance's; with  *)
(* neither, every response with the expected status passes, whatever its   *)
(* Content-Type header.                                                    *)
(***************************************************************************)
C5_ContentTypePrecedence ==
  (Settled /\ StatusAsExpected) =>
    LET E == ClaimedContentType
    IN /\ E = Undefined => last.settled = "resolved"
       /\ isString(E) =>
            /\ last.settled = "resolved" <=> Header = E
            /\ last.settled = "rejected" => last.error = EqualMessage(HeaderText, E)
       /\ isRegExp(E) =>
            /\ last.settled = "resolved" <=> (Truthy(Header) /\ Matches(Header.s, E))
            /\ last.settled = "rejected" =>
                 last.error \in {MissingMessage(E), MatchMessage(HeaderText, E)}

C5_Witness ==
  /\ Settled
  /\ this.expectedContentType = RegExp(JsonPattern)
  /\ Get(last.options, "expectedContentType") = RegExp(XmlPattern)
  /\ last.res = Response(200, Str(ExpressJson))
  /\ last.error = "Expected HTTP Content-Type header \"application/json; charset=utf-8\" to match /^application\\/xml/"

(***************************************************************************)
(* C6. With a string E expected, expect() passes if and only if the        *)
(* Content-Type header equals E exactly, and otherwise fails with          *)
(* `Expected HTTP Content-Type header "<actual>" to equal "E"`.            *)
(*                                                                         *)
(* As claimed, a missing header appears in the message as the empty        *)
(* string.                                                                 *)
(***************************************************************************)
C6_MissingHeaderAsEmptyString ==
  (Settled /\ StatusAsExpected /\ isString(ClaimedContentType)) =>
    /\ last.settled = "resolved" <=> Header = ClaimedContentType
    /\ last.settled = "rejected" =>
         last.error = EqualMessage(IF Header = Undefined THEN "" ELSE Text(Header.s),
                                   ClaimedContentType)

\* C6, as amended: a missing header appears in the message as `undefined`.
C6_StringExactMatch ==
  (Settled /\ StatusAsExpected /\ isString(ClaimedContentType)) =>
    /\ last.settled = "resolved" <=> Header = ClaimedContentType
    /\ last.settled = "rejected" =>
         last.error = EqualMessage(IF Header = Undefined THEN "undefined" ELSE Text(Header.s),
                                   ClaimedContentType)

C6_Witness ==
  /\ Settled
  /\ StatusAsExpected
  /\ ClaimedContentType = Str(Json)
  /\ Header = Undefined
  /\ last.error = "Expected HTTP Content-Type header \"undefined\" to equal \"application/json\""

(***************************************************************************)
(* C7. With a pattern R expected, expect() fails with `Expected missing    *)
(* HTTP Content-Type header to match R` exactly when the response has no   *)
(* Content-Type header, fails with `Expected HTTP Content-Type header      *)
(* "<actual>" to match R` exactly when the header is present and does not  *)
(* match R, and passes exactly when the header is present and matches R.   *)
(***************************************************************************)
C7_MissingExactlyWhenNoHeader ==
  (Settled /\ StatusAsExpected /\ isRegExp(ClaimedContentType)) =>
    LET R == ClaimedContentType
        present == Header # Undefined
    IN /\ last.error = MissingMessage(R) <=> ~present
       /\ last.error = MatchMessage(HeaderText, R) <=> (present /\ ~Matches(Header.s, R))
       /\ last.settled = "resolved" <=> (present /\ Matches(Header.s, R))

\* C7, as amended: an empty Content-Type header counts as a missing one.
C7_PatternMatch ==
  (Settled /\ StatusAsExpected /\ isRegExp(ClaimedContentType)) =>
    LET R == ClaimedContentType
        present == Header \notin {Undefined, Str(<<>>)}
    IN /\ last.error = MissingMessage(R) <=> ~present
       /\ last.error = MatchMessage(HeaderText, R) <=> (present /\ ~Matches(Header.s, R))
       /\ last.settled = "resolved" <=> (present /\ Matches(Header.s, R))

C7_Witness ==
  /\ Settled
  /\ StatusAsExpected
  /\ ClaimedContentType = RegExp(JsonPattern)
  /\ Header = Str(<<>>)
  /\ last.error = "Expected missing HTTP Content-Type header to match /^application\\/json/"

(***************************************************************************)
(* C8. The constructor takes any expectedContentType without raising, and  *)
(* a value that is neither a string nor a pattern, given at construction   *)
(* or per call, makes expect() fail for a response with the expected       *)
(* status.                                                                 *)
(***************************************************************************)
C8_MalformedFailsAtAssertion ==
  (Settled /\ StatusAsExpected /\ Malformed(ClaimedContentType)) =>
    last.settled = "rejected"

\* C8, as amended: such a value is kept as given and never surfaces: expect()
\* makes no content-type assertion, and passes exactly the responses with the
\* expected status.
C8_MalformedNeverSurfaces ==
  /\ this.expectedContentType = Get(ConstructorOptions, "expectedContentType")
  /\ (Settled /\ Malformed(ClaimedContentType)) =>
       (last.settled = "resolved" <=> StatusAsExpected)

C8_Witness ==
  /\ Settled
  /\ this.expectedContentType = Num(42)
  /\ "expectedContentType" \notin DOMAIN last.options
  /\ last.res = Response(200, Str(Html))
  /\ last.settled = "resolved"

(***************************************************************************)
(* C9. create(path, body, options) is one call test('POST', path, body, o) *)
(* where o has the caller's keys and values and expectedStatus = 201 only  *)
(* when the caller gave no expectedStatus; so a create call without        *)
(* expectedStatus is rejected with `Expected HTTP status code 200 to equal *)
(* 201` by a response with status 200 and passes the status gate with 201. *)
(***************************************************************************)
C9_CreateDefaultsTo201 ==
  LET status == Get(GivenOptions, "expectedStatus")
  IN /\ Called("create") =>
          /\ Len(calls) = 1
          /\ last.args.method = Str(POST)
          /\ last.args.path = last.given.path
          /\ last.args.body = last.given.body
          /\ DOMAIN last.args.options.o = DOMAIN GivenOptions \cup {"expectedStatus"}
          /\ \A k \in DOMAIN GivenOptions \ {"expectedStatus"} :
               last.args.options.o[k] = GivenOptions[k]
          /\ last.args.options.o["expectedStatus"] =
               IF status # Undefined THEN status ELSE Num(201)
     /\ (Settled /\ last.op = "create" /\ status = Undefined) =>
          /\ last.res.status = Num(200) =>
               /\ last.settled = "rejected"
               /\ last.error = "Expected HTTP status code 200 to equal 201"
          /\ last.res.status = Num(201) => last.settled = "resolved"

C9_Witness ==
  /\ Settled
  /\ last.op = "create"
  /\ GivenOptions = [baz |-> Str(<<"q","u","x">>)]
  /\ last.options = [baz |-> Str(<<"q","u","x">>), expectedStatus |-> Num(201)]
  /\ last.res.status = Num(200)
  /\ last.error = "Expected HTTP status code 200 to equal 201"

(***************************************************************************)
(* C10. update(path, body, options) calls test with the method             *)
(* options.method when the call gives one, else the updateMethod given at  *)
(* construction, else "PUT"; path, body and options (an empty object when  *)
(* options is absent) are passed on as they are, and no expectedStatus is  *)
(* added.                                                                  *)
(***************************************************************************)
C10_UpdateMethodPrecedence ==
  Called("update") =>
    /\ last.args.method =
         IF Truthy(Get(GivenOptions, "method")) THEN Get(GivenOptions, "method")
         ELSE IF Truthy(Get(ConstructorOptions, "updateMethod"))
           THEN Get(ConstructorOptions, "updateMethod")
         ELSE Str(PUT)
    /\ last.args.path = last.given.path
    /\ last.args.body = last.given.body
    /\ last.args.options = Lit(GivenOptions)
    /\ last.given.options # Undefined => last.passedOn
    /\ Len(calls) = 1

C10_Witness ==
  /\ Called("update")
  /\ Get(ConstructorOptions, "updateMethod") = Str(PATCH)
  /\ GivenOptions = [method |-> Str(POST), baz |-> Str(<<"q","u","x">>)]
  /\ last.args.method = Str(POST)
  /\ last.request.method = <<"p","o","s","t">>
  /\ last.args.options = Lit([method |-> Str(POST), baz |-> Str(<<"q","u","x">>)])

(***************************************************************************)
(* C11. retrieve(path, options) and read(path, options) each make the one  *)
(* call test('GET', path, undefined, options); destroy(path, body,         *)
(* options) and delete(path, body, options) each make the one call         *)
(* test('DELETE', path, body, options); patch makes the one call           *)
(* test('PATCH', path, body, options).  The options argument is passed on  *)
(* as it is, the chain of test is what the caller gets, and nothing is     *)
(* added to the options: without an expectedStatus the assertion expects   *)
(* status 200.                                                             *)
(***************************************************************************)
PlainAliases == {"read", "retrieve", "patch", "delete", "destroy"}

AliasVerb(op) ==
  IF op \in {"read", "retrieve"} THEN GET
  ELSE IF op = "patch" THEN PATCH
  ELSE DELETE

AliasBody(op) == IF op \in {"read", "retrieve"} THEN Undefined ELSE last.given.body

C11_AliasesDelegate ==
  /\ (last.kind = "call" /\ last.op \in PlainAliases) =>
       /\ Len(calls) = 1
       /\ last.args = [ method |-> Str(AliasVerb(last.op)), path |-> last.given.path,
                        body |-> AliasBody(last.op), options |-> last.given.options ]
       /\ last.passedOn
       /\ last.request = [ method |-> toLowerCase(AliasVerb(last.op)),
                           path |-> last.given.path,
                           sent |-> IF AliasBody(last.op) = Undefined THEN <<>>
                                    ELSE <<AliasBody(last.op)>> ]
       /\ calls[1].request = last.request
  /\ (Settled /\ last.op \in PlainAliases) =>
       /\ last.options = GivenOptions
       /\ last.settled = "resolved" <=>
            last.res.status = IF Get(GivenOptions, "expectedStatus") # Undefined
                                THEN Get(GivenOptions, "expectedStatus") ELSE Num(200)

C11_Witness ==
  /\ Called("destroy")
  /\ last.given.body = FooBar
  /\ last.given.options = Lit([baz |-> Str(<<"q","u","x">>)])
  /\ last.args = [ method |-> Str(DELETE), path |-> Str(TestRoute), body |-> FooBar,
                   options |-> Lit([baz |-> Str(<<"q","u","x">>)]) ]
  /\ last.request.sent = <<FooBar>>

(***************************************************************************)
(* C12. With options.expectedStatusCode = N the assertion expects status   *)
(* N, and without it 200 (201 for create, as its JSDoc says): a response   *)
(* with that status passes the status gate and any other status fails it.  *)
(***************************************************************************)
StatusMessage(actual, expected) ==
  "Expected HTTP status code " \o Text(NumToStr(actual.n)) \o " to equal "
    \o Text(NumToStr(expected.n))

\* The assertion failed on the status.
FailedStatusGate ==
  /\ last.settled = "rejected"
  /\ \E expected \in {Num(200), Num(201)} :
       last.error = StatusMessage(last.res.status, expected)

DocumentedStatus ==
  IF Get(GivenOptions, "expectedStatusCode") # Undefined
    THEN Get(GivenOptions, "expectedStatusCode")
  ELSE IF last.op = "create" THEN Num(201)
  ELSE Num(200)

C12_ExpectedStatusCodeHonoured ==
  Settled => (~FailedStatusGate <=> last.res.status = DocumentedStatus)

(***************************************************************************)
(* C13. On the README's instance, test('POST', '/users', {foo: 'bar'})     *)
(* posts the body to '/api/users' and accepts exactly the responses with   *)
(* status 201 whose content type matches /^application\/json/.             *)
(***************************************************************************)
C13_ReadmeEquivalence ==
  ( /\ Settled
    /\ last.op = "test"
    /\ constructed = ReadmeConstructorOptions
    /\ last.given = [ method |-> Str(POST), path |-> Str(UsersRoute), body |-> FooBar,
                      options |-> Undefined ] )
  => /\ last.request = [ method |-> toLowerCase(POST),
                         path |-> Str(Api \o UsersRoute),
                         sent |-> <<FooBar>> ]
     /\ last.settled = "resolved" <=>
          /\ last.res.status = Num(201)
          /\ Header # Undefined
          /\ Matches(Header.s, RegExp(JsonPattern))

(***************************************************************************)
(* C14. A call of test() with a supported verb validates the verb,         *)
(* dispatches one request (sending the body when there is one), registers  *)
(* its callback, and when the response is there runs expect() once on that *)
(* response with the options that call passed to test(), and then settles: *)
(* resolved with the response when expect() raised nothing, else rejected  *)
(* with the error expect() raised.  An unsupported verb dispatches         *)
(* nothing.                                                                *)
(***************************************************************************)
Count(seq, e) == Cardinality({n \in DOMAIN seq : seq[n] = e})

OptionsPassed == IF last.args.options = Undefined THEN EmptyObject ELSE last.args.options.o

C14_CallLifecycle ==
  /\ last.kind = "throw" => last.events = <<"validate">>
  /\ last.kind = "call" =>
       /\ last.events = <<"validate", "dispatch">>
                          \o (IF last.request.sent # <<>> THEN <<"send">> ELSE <<>>)
                          \o <<"register">>
       /\ calls[Len(calls)].events = last.events
  /\ Settled =>
       /\ last.events = <<"validate", "dispatch">>
                          \o (IF last.request.sent # <<>> THEN <<"send">> ELSE <<>>)
                          \o <<"register", "response", "expect", "settle">>
       /\ Count(last.events, "dispatch") = 1
       /\ Count(last.events, "expect") = 1
       /\ last.options = OptionsPassed
       /\ last.settled = IF expect(last.res, OptionsPassed).threw
                           THEN "rejected" ELSE "resolved"
       /\ last.settled = "resolved" => last.value = last.res
       /\ last.settled = "rejected" =>
            /\ last.error = expect(last.res, OptionsPassed).error
            /\ last.value = Undefined

C14_Witness ==
  /\ Settled
  /\ last.op = "create"
  /\ last.res = Response(200, Str(ExpressJson))
  /\ last.settled = "rejected"
  /\ last.error = "Expected HTTP status code 200 to equal 201"
  /\ last.events = <<"validate", "dispatch", "send", "register", "response", "expect",
                     "settle">>
  /\ Len(calls) = 1

(***************************************************************************)
(* C15. Whatever calls were made and however they ended (resolved,         *)
(* rejected, thrown for an unsupported verb), the instance holds the app   *)
(* and the expectedContentType it was constructed with, the pathPrefix it  *)
(* was constructed with or '' and the updateMethod it was constructed with *)
(* or 'PUT'.                                                               *)
(***************************************************************************)
C15_InstanceImmutable ==
  /\ this.app = App
  /\ this.expectedContentType = Get(ConstructorOptions, "expectedContentType")
  /\ this.pathPrefix =
       IF Truthy(Get(ConstructorOptions, "pathPrefix"))
         THEN Get(ConstructorOptions, "pathPrefix") ELSE Str(<<>>)
  /\ this.updateMethod =
       IF Truthy(Get(ConstructorOptions, "updateMethod"))
         THEN Get(ConstructorOptions, "updateMethod") ELSE Str(PUT)

C15_Witness ==
  /\ last.kind = "throw"
  /\ Len(calls) = 1
  /\ calls[1].op = "update"
  /\ constructed = Undefined
  /\ this.pathPrefix = Str(<<>>)
  /\ this.updateMethod = Str(PUT)

(***************************************************************************)
(* C16. With several calls outstanding and their responses arriving in any *)
(* order, the request of each call and the way it settles are those of the *)
(* same call made alone on the instance and given the same response.       *)
(***************************************************************************)
\* The call op(given) made with nothing else outstanding.
Alone(op, given) ==
  LET o == given.options
      h == IF o = Undefined THEN EmptyObject ELSE Alloc(EmptyObject, o.o)
      arg == IF o = Undefined THEN Undefined ELSE Ref(NewRef(EmptyObject))
  IN CASE op = "test" -> test(h, given.method, given.path, given.body, arg)
       [] op = "create" -> create(h, given.path, given.body, arg)
       [] op = "read" -> read(h, given.path, arg)
       [] op = "retrieve" -> retrieve(h, given.path, arg)
       [] op = "update" -> update(h, given.path, given.body, arg)
       [] op = "patch" -> patch(h, given.path, given.body, arg)
       [] op = "delete" -> delete(h, given.path, given.body, arg)
       [] op = "destroy" -> destroy(h, given.path, given.body, arg)

\* How the call op(given) made alone settles on the response res.
AloneOutcome(op, given, res) ==
  LET a == Alone(op, given) IN expect(res, a.heap[a.options.r])

C16_CallsIndependent ==
  /\ \A j \in DOMAIN calls : calls[j].request = Alone(calls[j].op, calls[j].given).request
  /\ Settled =>
       /\ last.request = Alone(last.op, last.given).request
       /\ last.settled = IF AloneOutcome(last.op, last.given, last.res).threw
                           THEN "rejected" ELSE "resolved"
       /\ last.error = AloneOutcome(last.op, last.given, last.res).error

C16_Witness ==
  /\ Settled
  /\ last.op = "create"
  /\ last.given.options = Qux
  /\ last.res = Response(201, Str(Html))
  /\ last.settled = "resolved"
  /\ Len(calls) = 1
  /\ calls[1].op = "test"
  /\ calls[1].given.options = Qux

(***************************************************************************)
(* C19. No operation writes to the options object of its caller: after the *)
(* call, while the chain is outstanding and when it settles, the object    *)
(* has the keys and values it had when it was passed.  create gives test() *)
(* another object, with the caller's keys and values and expectedStatus    *)
(* 201 when the caller gave none.                                          *)
(***************************************************************************)
C19_CallerOptionsUntouched ==
  /\ \A j \in DOMAIN calls :
       /\ Deref(heap, calls[j].callerOptions) = calls[j].given.options
       /\ calls[j].op = "create" => calls[j].options # calls[j].callerOptions
  /\ last.kind \in {"call", "throw", "settle"} => last.callerOptions = last.given.options
  /\ Called("create") =>
       /\ last.given.options # Undefined => ~last.passedOn
       /\ last.args.options =
            Lit(defaults(GivenOptions, <<Lit([expectedStatus |-> Num(201)])>>))

C19_Witness ==
  /\ Called("create")
  /\ Len(calls) = 2
  /\ calls[1].op = "test"
  /\ calls[1].callerOptions.t = "ref"
  /\ calls[1].callerOptions = calls[2].callerOptions
  /\ calls[1].options = calls[1].callerOptions
  /\ last.callerOptions = Qux
  /\ last.args.options = Lit([baz |-> Str(<<"q","u","x">>), expectedStatus |-> Num(201)])
  /\ heap[calls[1].options.r] = Qux.o

(***************************************************************************)
(* C17. As claimed: undefined, null, false, 0 and '' send no body, and     *)
(* every other body is sent as it is, once.                                *)
(***************************************************************************)
C17_OnlyListedBodiesOmitted ==
  last.kind = "call" =>
    last.request.sent =
      IF last.given.body \in {Undefined, Null, Bool(FALSE), Num(0), Str(<<>>)}
        THEN <<>> ELSE <<last.given.body>>

(***************************************************************************)
(* C17, amended.  A body is sent if and only if the body argument is       *)
(* truthy: undefined, null, false, 0, NaN and '' send no body, and every   *)
(* other body is sent as it is, by one call of send.                       *)
(***************************************************************************)
Falsy == {Undefined, Null, Bool(FALSE), Num(0), NaN, Str(<<>>)}

C17_BodySentIffTruthy ==
  /\ last.kind = "call" =>
       /\ last.request.sent =
            IF last.given.body \in Falsy THEN <<>> ELSE <<last.given.body>>
       /\ Count(last.events, "send") = IF last.given.body \in Falsy THEN 0 ELSE 1
       /\ calls[Len(calls)].request = last.request
  /\ Settled =>
       last.request.sent = IF last.given.body \in Falsy THEN <<>> ELSE <<last.given.body>>

C17_Witness ==
  /\ Called("delete")
  /\ last.given.body = NaN
  /\ last.request = [method |-> toLowerCase(DELETE), path |-> Str(TestRoute), sent |-> <<>>]
  /\ last.events = <<"validate", "dispatch", "register">>

(***************************************************************************)
(* C18. As claimed: the expected status and content type a call's          *)
(* assertion checks are those its options held when the call was made; an *)
(* assignment to the options object after the call returned and before the *)
(* response arrived does not change how the call settles.                  *)
(***************************************************************************)
C18_OptionsAsAtCall ==
  Settled =>
    /\ expectedStatus(last.options) = expectedStatus(OptionsPassed)
    /\ expectedContentType(last.options) = expectedContentType(OptionsPassed)
    /\ last.settled = IF expect(last.res, OptionsPassed).threw
                        THEN "rejected" ELSE "resolved"

(***************************************************************************)
(* C18, amended.  The assertion checks the expected status and content     *)
(* type that the options object passed to test() holds when the response   *)
(* arrives.  create passes test() its own copy, so for create these are    *)
(* the caller's values at the call (and 201 without an expectedStatus),    *)
(* whatever the caller assigns afterwards; test, read, retrieve, update,   *)
(* patch, delete and destroy pass on the caller's object, so for them an   *)
(* assignment made before the response arrives is what the assertion       *)
(* checks.                                                                 *)
(***************************************************************************)
\* The caller's options object when the response arrives.
CallerOptionsNow ==
  IF last.callerOptions = Undefined THEN EmptyObject ELSE last.callerOptions.o

OptionsChecked ==
  IF last.op = "create"
    THEN defaults(GivenOptions, <<Lit([expectedStatus |-> Num(201)])>>)
    ELSE CallerOptionsNow

C18_OptionsAsAtResponse ==
  Settled =>
    /\ last.options = OptionsChecked
    /\ last.settled = "resolved" <=>
         /\ last.res.status =
              IF Get(OptionsChecked, "expectedStatus") # Undefined
                THEN Get(OptionsChecked, "expectedStatus") ELSE Num(200)
         /\ Get(OptionsChecked, "expectedContentType") # Undefined =>
              last.res.contentType = Get(OptionsChecked, "expectedContentType")

C18_Witness ==
  /\ Settled
  /\ last.op = "test"
  /\ last.given.options = Expect201
  /\ last.callerOptions = Lit([expectedStatus |-> Num(200)])
  /\ last.res = Response(201, Str(ExpressJson))
  /\ last.settled = "rejected"
  /\ last.error = "Expected HTTP status code 201 to equal 200"

====
